---- MODULE Spec2Model ----
(***************************************************************************)
(* Model of src/main.py: the Ensembl GTF ETL pipeline.                     *)
(*                                                                         *)
(* Text values are sequences of one-character strings, so that the regular *)
(* expressions of extract_key_attributes and the comparisons of the gene   *)
(* filter are computed character by character.  A DataFrame is a record    *)
(* [err, cols, rows]: the exception its construction raised ("none" when   *)
(* it did not raise), the ordered column labels, and the rows in order,    *)
(* each row [idx |-> pandas index label, v |-> [column -> value]].         *)
(***************************************************************************)
EXTENDS Integers, Sequences, FiniteSets, TLC

VARIABLES
    pc,               \* position of the run in main / transformation_recursion
    killed,           \* the process was terminated at this position
    entry,            \* "main": main(); "call": transformation_recursion(dir, out)
    outArg,           \* the ouput_file_path argument of transformation_recursion
    returncode,       \* result.returncode of the wget run (-1 before it ran)
    gz,               \* temp_download_folder: state of NAME.gtf.gz per NAME
    gtf,              \* temp_download_folder: NAME.gtf is present
    out,              \* the output directories and their NAME.gene_info.tsv files
    listing,          \* what is left of os.listdir(dir), matching files only
    attempted,        \* the files read_gtf_file was called on
    cur_file,         \* filename of the current loop iteration
    cur_text,         \* the text of the current file
    raw_data,         \* raw_data of the current iteration
    extracted_data,   \* extracted_data of the current iteration
    transformed_data, \* transformed_data of the current iteration
    printed           \* what was printed so far

vars == <<pc, killed, entry, outArg, returncode, gz, gtf, out, listing,
          attempted, cur_file, cur_text, raw_data, extracted_data,
          transformed_data, printed>>

----------------------------------------------------------------------------
(* Bounds of the model *)

\* lines of one annotation file
MaxLines == 2
\* key "value" pairs of one attribute string
MaxPairs == 2

----------------------------------------------------------------------------
(* Characters and text *)

DQ == "\""
SP == " "
\* pandas' missing value; no text equals it, a text's elements being characters
NaN == <<"NaN">>

T_gene == <<"g", "e", "n", "e">>
T_Gene == <<"G", "e", "n", "e">>
T_genes == <<"g", "e", "n", "e", "s">>
T_exon == <<"e", "x", "o", "n">>
T_gene_id == <<"g", "e", "n", "e", "_", "i", "d">>
T_gene_biotype == <<"g", "e", "n", "e", "_", "b", "i", "o", "t", "y", "p", "e">>
T_ref_gene_id == <<"r", "e", "f", "_">> \o T_gene_id
T_gene_name == <<"g", "e", "n", "e", "_", "n", "a", "m", "e">>
T_seqname == <<"s", "e", "q", "n", "a", "m", "e">>
T_source == <<"s", "o", "u", "r", "c", "e">>
T_feature == <<"f", "e", "a", "t", "u", "r", "e">>

Min(S) == CHOOSE x \in S : \A y \in S : x <= y

\* \s of Python's re, within the characters of the model
IsSpace(c) == c \in {" ", "\t"}

----------------------------------------------------------------------------
(* The annotation text *)

\* the column labels read_gtf_file assigns
GtfColumns ==
    <<"seqname", "source", "feature", "start", "end", "score", "strand",
      "frame", "attribute">>

NumColumns == Len(GtfColumns)

\* one key "value"; pair of the attribute field: key, the white space after
\* it, the quoted value
RenderPair(p) == p.key \o p.sep \o <<DQ>> \o p.val \o <<DQ, ";">>

RECURSIVE RenderAttr(_)
RenderAttr(ps) ==
    IF ps = <<>> THEN <<>>
    ELSE IF Len(ps) = 1 THEN RenderPair(ps[1])
    ELSE RenderPair(ps[1]) \o <<SP>> \o RenderAttr(Tail(ps))

Pair(k, s, v) == [key |-> k, sep |-> s, val |-> v]

A_full ==
    RenderAttr(<<Pair(T_gene_id, <<SP>>, <<"G", "1">>),
                 Pair(T_gene_biotype, <<SP>>, <<"p", "c">>)>>)
A_idonly == RenderAttr(<<Pair(T_gene_id, <<SP>>, <<"G", "2">>)>>)

\* the first eight fields of a line with the given feature
Fields8(feature) ==
    <<<<"1">>, <<"e", "n", "s">>, feature, <<"7">>, <<"9">>, <<".">>, <<"+">>,
      <<".">>>>

DataLine(feature, attribute) == Fields8(feature) \o <<attribute>>

CommentLine == <<<<"#", "!", "v">>>>

\* the lines an annotation file of the pipeline model is made of: a comment,
\* well-formed lines of several features, a line of seven fields and a line
\* of ten
LineSet ==
    { CommentLine,
      DataLine(T_gene, A_full),
      DataLine(T_gene, A_idonly),
      DataLine(T_exon, A_full),
      DataLine(T_Gene, A_full),
      DataLine(T_genes, A_full),
      SubSeq(Fields8(T_gene), 1, 7),
      DataLine(T_gene, A_full) \o <<<<"x">>>> }

Contents == UNION { [1..k -> LineSet] : k \in 0..MaxLines }

\* the keys, white space and values the attribute strings are made of: the
\* two extracted keys, a key that ends in gene_id and an unrelated key; an
\* empty and a non-empty value
Keys == {T_gene_id, T_gene_biotype, T_ref_gene_id, T_gene_name}
Seps == {<<>>, <<SP>>}
Values == {<<>>, <<"G", "1">>}

PairSet == { Pair(k, s, v) : k \in Keys, s \in Seps, v \in Values }

\* the attribute fields: up to MaxPairs pairs, no key twice
PairSeqs ==
    { ps \in UNION { [1..k -> PairSet] : k \in 0..MaxPairs } :
        \A i, j \in 1..Len(ps) : i # j => ps[i].key # ps[j].key }

\* the files of one gene line, one per attribute field
AttrContents == { <<DataLine(T_gene, RenderAttr(ps))>> : ps \in PairSeqs }

----------------------------------------------------------------------------
(* read_gtf_file *)

\* comment="#": a line whose first character is the comment character is
\* skipped whole (the fields of the model hold no "#" elsewhere)
IsComment(line) == line[1] # <<>> /\ line[1][1] = "#"

DataLines(text) == SelectSeq(text, LAMBDA l : ~IsComment(l))

Frame(e, c, r) == [err |-> e, cols |-> c, rows |-> r]

NoFrame == Frame("unset", <<>>, <<>>)

\* field j of a tokenized line padded to the table width: a missing trailing
\* field and an empty field both read as NaN
FieldOrNaN(line, j) ==
    IF j > Len(line) \/ line[j] = <<>> THEN NaN ELSE line[j]

\* pd.read_csv(file, sep="\t", comment="#", header=None, dtype={0: str})
\* followed by the assignment of the nine column labels
read_gtf_file(text) ==
    LET data == DataLines(text)
        width == Len(data[1])
    IN  IF data = <<>> THEN Frame("EmptyDataError", <<>>, <<>>)
        ELSE IF \E i \in 2..Len(data) : Len(data[i]) > width
            THEN Frame("ParserError", <<>>, <<>>)
        ELSE IF width # NumColumns THEN Frame("ValueError", <<>>, <<>>)
        ELSE Frame("none", GtfColumns,
                   [i \in 1..Len(data) |->
                       [idx |-> i - 1,
                        v |-> [c \in {GtfColumns[j] : j \in 1..NumColumns} |->
                                 LET j == CHOOSE k \in 1..NumColumns :
                                              GtfColumns[k] = c
                                 IN  FieldOrNaN(data[i], j)]]])

----------------------------------------------------------------------------
(* extract_key_attributes *)

\* gtf_data["feature"] == "gene"
IsGenePrefix(row) ==
    Len(row.v.feature) >= 4 /\ SubSeq(row.v.feature, 1, 4) = T_gene

IsGene(row) == row.v.feature = T_gene

\* first position at or after i that holds no white space
RECURSIVE SkipSpace(_, _)
SkipSpace(s, i) ==
    IF i <= Len(s) /\ IsSpace(s[i]) THEN SkipSpace(s, i + 1) ELSE i

\* the closing quotes that end (.+?)" when the opening quote is at q
Closers(s, q) == { r \in (q + 2)..Len(s) : s[r] = DQ }

\* key\s*"(.+?)" matches s from position i
MatchesAt(s, key, i) ==
    LET e == i + Len(key) - 1
        q == SkipSpace(s, e + 1)
    IN  /\ e <= Len(s)
        /\ SubSeq(s, i, e) = key
        /\ q <= Len(s)
        /\ s[q] = DQ
        /\ Closers(s, q) # {}

\* Series.str.extract(r'key\s*"(.+?)"') on one value: the group of the
\* leftmost match, NaN without a match or on a missing value
StrExtract(s, key) ==
    IF s = NaN THEN NaN
    ELSE LET M == { i \in 1..Len(s) : MatchesAt(s, key, i) }
         IN  IF M = {} THEN NaN
             ELSE LET q == SkipSpace(s, Min(M) + Len(key))
                  IN  SubSeq(s, q + 1, Min(Closers(s, q)) - 1)

\* the attribute column holds text (dtype object): some row of the frame has
\* an attribute; a column that is empty on every row is read as float64
AttributeIsText(frame) ==
    \E i \in 1..Len(frame.rows) : frame.rows[i].v.attribute # NaN

WithDerived(row) ==
    [idx |-> row.idx,
     v |-> [c \in DOMAIN row.v \cup {"gene_id", "gene_biotype"} |->
              IF c = "gene_id" THEN StrExtract(row.v.attribute, T_gene_id)
              ELSE IF c = "gene_biotype"
                  THEN StrExtract(row.v.attribute, T_gene_biotype)
              ELSE row.v[c]]]

extract_key_attributes(gtf_data) ==
    LET gene_data == SelectSeq(gtf_data.rows, IsGene)
    IN  IF ~AttributeIsText(gtf_data) THEN Frame("AttributeError", <<>>, <<>>)
        ELSE Frame("none", gtf_data.cols \o <<"gene_id", "gene_biotype">>,
                   [i \in 1..Len(gene_data) |-> WithDerived(gene_data[i])])

----------------------------------------------------------------------------
(* transform_data *)

OutputColumns == <<"gene_id", "feature", "gene_biotype", "seqname", "source">>

SelectColumns(frame, columns) ==
    Frame("none", columns,
          [i \in 1..Len(frame.rows) |->
              [idx |-> frame.rows[i].idx,
               v |-> [c \in {columns[j] : j \in 1..Len(columns)} |->
                        frame.rows[i].v[c]]]])

transform_data_reordered(gene_data) ==
    SelectColumns(gene_data,
        <<"gene_id", "gene_biotype", "feature", "seqname", "source">>)

transform_data(gene_data) == SelectColumns(gene_data, OutputColumns)

----------------------------------------------------------------------------
(* DataFrame.to_csv(path, sep="\t", header=True, index=False) *)

ColumnText(c) ==
    CASE c = "gene_id" -> T_gene_id
      [] c = "gene_biotype" -> T_gene_biotype
      [] c = "feature" -> T_feature
      [] c = "seqname" -> T_seqname
      [] c = "source" -> T_source
      [] OTHER -> <<"?">>

RECURSIVE DoubleQuotes(_)
DoubleQuotes(s) ==
    IF s = <<>> THEN <<>>
    ELSE (IF Head(s) = DQ THEN <<DQ, DQ>> ELSE <<Head(s)>>)
         \o DoubleQuotes(Tail(s))

\* csv.QUOTE_MINIMAL: a missing value is written as the empty field, a value
\* holding the quote character, the separator or a line end is quoted
CsvField(value) ==
    IF value = NaN THEN <<>>
    ELSE IF \E i \in 1..Len(value) : value[i] \in {DQ, "\t", "\n", "\r"}
        THEN <<DQ>> \o DoubleQuotes(value) \o <<DQ>>
    ELSE value

\* the lines of the written file, each the tuple of its tab-separated fields
CsvLines(frame) ==
    <<[j \in 1..Len(frame.cols) |-> ColumnText(frame.cols[j])]>>
    \o [i \in 1..Len(frame.rows) |->
          [j \in 1..Len(frame.cols) |->
              CsvField(frame.rows[i].v[frame.cols[j]])]]

----------------------------------------------------------------------------
(* The file system and the run *)

\* NAME of NAME.gtf.gz, NAME.gtf and NAME.gene_info.tsv
Names == {"a", "b"}

\* output_folder, the module constant, and another directory a caller passes
OutputFolder == "output_folder"
OtherFolder == "other_folder"
OutDirs == {OutputFolder, OtherFolder}

File(p, l) == [present |-> p, lines |-> l]
NoFile == File(FALSE, <<>>)
Dir(e, f) == [exists |-> e, files |-> f]
NoDir == Dir(FALSE, [n \in Names |-> NoFile])

\* an output file left by an earlier run
StaleLines ==
    <<[j \in 1..Len(OutputColumns) |-> ColumnText(OutputColumns[j])],
      <<<<"O", "1">>, T_gene, <<"p", "c">>, <<"1">>, <<"e", "n", "s">>>>>>

Perms(S) ==
    { s \in [1..Cardinality(S) -> S] :
        \A i, j \in 1..Cardinality(S) : i # j => s[i] # s[j] }

Msg(m, a) == [msg |-> m, arg |-> a]

Running == ~killed /\ pc \notin {"done", "failed"}

\* an exception leaves transformation_recursion (and unzip, and run); main
\* catches it and prints it, another caller gets it
Raise(e) ==
    /\ pc' = "failed"
    /\ printed' = IF entry = "main" THEN Append(printed, Msg("error", e))
                  ELSE printed

Init ==
    /\ entry \in {"main", "call"}
    /\ pc = IF entry = "main" THEN "download" ELSE "listdir"
    /\ outArg \in IF entry = "main" THEN {OutputFolder} ELSE OutDirs
    /\ killed = FALSE
    /\ returncode = -1
    /\ gz = [n \in Names |-> "none"]
    /\ gtf \in [Names -> BOOLEAN]
    /\ out \in { [d \in OutDirs |-> IF d = OutputFolder THEN o ELSE NoDir] :
                 o \in { NoDir,
                         Dir(TRUE, [n \in Names |-> NoFile]),
                         Dir(TRUE, [n \in Names |->
                                IF n = "a" THEN File(TRUE, StaleLines)
                                ELSE NoFile]) } }
    /\ listing = <<>>
    /\ attempted = {}
    /\ cur_file = ""
    /\ cur_text = <<>>
    /\ raw_data = NoFrame
    /\ extracted_data = NoFrame
    /\ transformed_data = NoFrame
    /\ printed = <<>>

\* download_gtf_files: wget ends with a return code, having fetched some of
\* the files; only the message depends on the code
Download ==
    /\ Running /\ pc = "download"
    /\ \E rc \in {0, 1}, fetched \in [Names -> {"none", "ok", "corrupt"}] :
        /\ returncode' = rc
        /\ gz' = fetched
        /\ printed' = Append(printed,
               IF rc = 0 THEN Msg("downloaded", "") ELSE Msg("error", "wget"))
    /\ pc' = "unzip"
    /\ UNCHANGED <<killed, entry, outArg, gtf, out, listing, attempted,
                   cur_file, cur_text, raw_data, extracted_data,
                   transformed_data>>

\* download_gtf_files: run() itself raises (no wget on the machine)
DownloadRaises ==
    /\ Running /\ pc = "download"
    /\ Raise("OSError")
    /\ UNCHANGED <<killed, entry, outArg, returncode, gz, gtf, out, listing,
                   attempted, cur_file, cur_text, raw_data, extracted_data,
                   transformed_data>>

\* the files of order before position k are unzipped and removed
Unzipped(order, k) == { order[i] : i \in 1..(k - 1) }

RECURSIVE UnzipMessages(_, _)
UnzipMessages(order, k) ==
    IF k <= 1 THEN <<>>
    ELSE Append(UnzipMessages(order, k - 1), Msg("unzipped", order[k - 1]))

\* unzip_gtf_files: every .gtf.gz of the listing in turn; a file gzip cannot
\* read raises after its .gtf was opened for writing, and ends the loop
Unzip ==
    /\ Running /\ pc = "unzip"
    /\ \E order \in Perms({ n \in Names : gz[n] # "none" }) :
        LET bad == { i \in 1..Len(order) : gz[order[i]] = "corrupt" }
            k == IF bad = {} THEN Len(order) + 1 ELSE Min(bad)
            opened == IF bad = {} THEN k ELSE k + 1
        IN  /\ gz' = [n \in Names |->
                        IF n \in Unzipped(order, k) THEN "none" ELSE gz[n]]
            /\ gtf' = [n \in Names |->
                        gtf[n] \/ n \in Unzipped(order, opened)]
            /\ IF bad = {}
               THEN /\ pc' = "listdir"
                    /\ printed' = printed \o UnzipMessages(order, k)
               ELSE /\ pc' = "failed"
                    /\ printed' = Append(printed \o UnzipMessages(order, k),
                                         Msg("error", "BadGzipFile"))
    /\ UNCHANGED <<killed, entry, outArg, returncode, out, listing, attempted,
                   cur_file, cur_text, raw_data, extracted_data,
                   transformed_data>>

\* transformation_recursion: os.listdir(dir), of which the loop keeps the
\* names ending in ".gtf"
ListDir ==
    /\ Running /\ pc = "listdir"
    /\ listing' \in Perms({ n \in Names : gtf[n] })
    /\ pc' = "loop"
    /\ UNCHANGED <<killed, entry, outArg, returncode, gz, gtf, out, attempted,
                   cur_file, cur_text, raw_data, extracted_data,
                   transformed_data, printed>>

\* the next file of the loop, its text one of texts:
\* raw_data = read_gtf_file(file_path)
ReadFileOf(texts) ==
    /\ Running /\ pc = "loop" /\ listing # <<>>
    /\ cur_file' = Head(listing)
    /\ listing' = Tail(listing)
    /\ attempted' = attempted \cup {Head(listing)}
    /\ cur_text' \in texts
    /\ raw_data' = read_gtf_file(cur_text')
    /\ extracted_data' = NoFrame
    /\ transformed_data' = NoFrame
    /\ IF raw_data'.err = "none"
       THEN pc' = "extract" /\ printed' = printed
       ELSE Raise(raw_data'.err)
    /\ UNCHANGED <<killed, entry, outArg, returncode, gz, gtf, out>>

ReadFile == ReadFileOf(Contents)

ReadAnyFile == ReadFileOf(Contents \cup AttrContents)

\* extracted_data = extract_key_attributes(raw_data)
ExtractStep ==
    /\ Running /\ pc = "extract"
    /\ extracted_data' = extract_key_attributes(raw_data)
    /\ IF extracted_data'.err = "none"
       THEN pc' = "project" /\ printed' = printed
       ELSE Raise(extracted_data'.err)
    /\ UNCHANGED <<killed, entry, outArg, returncode, gz, gtf, out, listing,
                   attempted, cur_file, cur_text, raw_data, transformed_data>>

\* transformed_data = transform_data(extracted_data)
ProjectStep ==
    /\ Running /\ pc = "project"
    /\ transformed_data' = transform_data(extracted_data)
    /\ pc' = "open"
    /\ UNCHANGED <<killed, entry, outArg, returncode, gz, gtf, out, listing,
                   attempted, cur_file, cur_text, raw_data, extracted_data,
                   printed>>

\* the directory out_file_path is built from: the module constant
WriteDir == OutputFolder

\* os.makedirs(output_folder, exist_ok=True), and to_csv opening
\* out_file_path for writing, which creates or empties it
OpenOut ==
    /\ Running /\ pc = "open"
    /\ out' = [out EXCEPT ![WriteDir] =
                 Dir(TRUE, [@.files EXCEPT ![cur_file] = File(TRUE, <<>>)])]
    /\ pc' = "write"
    /\ UNCHANGED <<killed, entry, outArg, returncode, gz, gtf, listing,
                   attempted, cur_file, cur_text, raw_data, extracted_data,
                   transformed_data, printed>>

\* to_csv: the next line reaches the file
WriteLine ==
    /\ Running /\ pc = "write"
    /\ LET done == out[WriteDir].files[cur_file].lines
           all == CsvLines(transformed_data)
       IN  /\ Len(done) < Len(all)
           /\ out' = [out EXCEPT ![WriteDir].files[cur_file].lines =
                        Append(done, all[Len(done) + 1])]
    /\ UNCHANGED <<pc, killed, entry, outArg, returncode, gz, gtf, listing,
                   attempted, cur_file, cur_text, raw_data, extracted_data,
                   transformed_data, printed>>

\* to_csv returns, the file is reported and the iteration ends
CloseOut ==
    /\ Running /\ pc = "write"
    /\ out[WriteDir].files[cur_file].lines = CsvLines(transformed_data)
    /\ printed' = Append(printed, Msg("saved", cur_file))
    /\ pc' = "loop"
    /\ cur_file' = ""
    /\ cur_text' = <<>>
    /\ raw_data' = NoFrame
    /\ extracted_data' = NoFrame
    /\ transformed_data' = NoFrame
    /\ UNCHANGED <<killed, entry, outArg, returncode, gz, gtf, out, listing,
                   attempted>>

\* the loop is over: transformation_recursion returns, and main reports
LoopEnd ==
    /\ Running /\ pc = "loop" /\ listing = <<>>
    /\ pc' = "done"
    /\ printed' = IF entry = "main" THEN Append(printed, Msg("success", ""))
                  ELSE printed
    /\ UNCHANGED <<killed, entry, outArg, returncode, gz, gtf, out, listing,
                   attempted, cur_file, cur_text, raw_data, extracted_data,
                   transformed_data>>

\* the process is terminated where it stands
Terminate ==
    /\ Running
    /\ killed' = TRUE
    /\ UNCHANGED <<pc, entry, outArg, returncode, gz, gtf, out, listing,
                   attempted, cur_file, cur_text, raw_data, extracted_data,
                   transformed_data, printed>>

Next ==
    \/ Download
    \/ DownloadRaises
    \/ Unzip
    \/ ListDir
    \/ ReadFile
    \/ ExtractStep
    \/ ProjectStep
    \/ OpenOut
    \/ WriteLine
    \/ CloseOut
    \/ LoopEnd
    \/ Terminate

Spec == Init /\ [][Next]_vars

\* transformation_recursion called on a directory that holds one file, the
\* file drawn from the texts above and from the one-line files of every
\* attribute field
InitFile ==
    /\ Init
    /\ entry = "call"
    /\ gtf = [n \in Names |-> n = "a"]

NextFile ==
    \/ ListDir
    \/ ReadAnyFile
    \/ ExtractStep
    \/ ProjectStep
    \/ OpenOut
    \/ WriteLine
    \/ CloseOut
    \/ LoopEnd
    \/ Terminate

SpecFile == InitFile /\ [][NextFile]_vars

----------------------------------------------------------------------------
(* The claims *)

Ended == pc \in {"done", "failed"}

MatchingFiles == { n \in Names : gtf[n] }

WasRead == raw_data.err # "unset"
WasExtracted == extracted_data.err # "unset"

HasShortLine(text) ==
    \E i \in 1..Len(DataLines(text)) : Len(DataLines(text)[i]) < NumColumns

\* C1: per-file isolation in the Batch Driver: when the processing of one
\* file of the directory fails, every other matching file of the directory
\* is still attempted, wherever the failing file comes in the iteration.
C1_PerFileIsolation ==
    (Ended /\ attempted # {}) => attempted = MatchingFiles

\* C2: a fetch failure (a non-zero return code of the download command) or a
\* decompress failure is fatal to the run: no annotation file is parsed
\* afterwards and the run never reports that the ETL process completed.
C2_FetchFailureIsFatal ==
    LET reported(m) == \E i \in 1..Len(printed) : printed[i] = m
        fetchFailed == returncode > 0
        unzipFailed == reported(Msg("error", "BadGzipFile"))
    IN  (fetchFailed \/ unzipFailed) =>
            (attempted = {} /\ ~reported(Msg("success", "")))

\* C3: a file with a non-comment line of fewer than nine tab-separated
\* fields, at any position, ends the Record Parser in an error for that
\* file: the line is never returned as a row with its missing fields padded.
C3_ShortLineIsMalformedRow ==
    (WasRead /\ HasShortLine(cur_text)) => raw_data.err # "none"

\* C4: the Gene Filter returns exactly the rows whose feature is the text
\* "gene" (whole field, case-sensitive), one Gene Record per such row, in
\* file order, each with the nine fields of its row; every other row is
\* excluded, so every Output Record has the feature "gene".
C4_GeneFilterExact ==
    LET R == raw_data.rows
        E == extracted_data.rows
        gene == <<"g", "e", "n", "e">>
    IN  /\ extracted_data.err = "none" =>
            /\ \A k \in 1..Len(E) :
                /\ E[k].v["feature"] = gene
                /\ \E i \in 1..Len(R) :
                    /\ R[i].idx = E[k].idx
                    /\ \A j \in 1..Len(GtfColumns) :
                         E[k].v[GtfColumns[j]] = R[i].v[GtfColumns[j]]
            /\ \A i \in 1..Len(R) :
                Cardinality({ k \in 1..Len(E) : E[k].idx = R[i].idx })
                    = IF R[i].v["feature"] = gene THEN 1 ELSE 0
            /\ \A k1, k2 \in 1..Len(E) : k1 < k2 => E[k1].idx < E[k2].idx
        /\ transformed_data.err = "none" =>
            \A k \in 1..Len(transformed_data.rows) :
                transformed_data.rows[k].v["feature"] = gene

\* C4 witness: the filter ran on a file of a gene line and a line whose
\* feature only starts with "gene", and kept one row
C4_Witness ==
    /\ extracted_data.err = "none"
    /\ Len(extracted_data.rows) = 1
    /\ \E i \in 1..Len(raw_data.rows) : raw_data.rows[i].v.feature = T_genes

\* the pair sequences an attribute text is the rendering of
PairsOf(attribute) == { ps \in PairSeqs : RenderAttr(ps) = attribute }

\* C5: for every attribute string that holds the pair gene_id "X" with X not
\* empty, whatever other pairs precede or follow it, the extracted gene_id
\* is X exactly; the same holds for gene_biotype.
C5_ExtractsQuotedValue ==
    (extracted_data.err = "none" /\ Len(raw_data.rows) = 1) =>
        \A k \in 1..Len(extracted_data.rows) :
        \A ps \in PairsOf(extracted_data.rows[k].v.attribute) :
        \A i \in 1..Len(ps) :
            /\ (ps[i].key = T_gene_id /\ ps[i].val # <<>>) =>
                   extracted_data.rows[k].v.gene_id = ps[i].val
            /\ (ps[i].key = T_gene_biotype /\ ps[i].val # <<>>) =>
                   extracted_data.rows[k].v.gene_biotype = ps[i].val

\* C6: extraction is independent per field and never fails: for a gene row
\* whose attribute string lacks the key gene_id (resp. gene_biotype) no
\* error is raised, the row is passed on as a Gene Record and its gene_id
\* (resp. gene_biotype) is the missing marker.
C6_MissingKeyGivesMissingField ==
    LET lacks(ps, key) == \A i \in 1..Len(ps) : ps[i].key # key
    IN  \A ps \in PairSeqs \ {<<>>} :
            (WasExtracted /\ cur_text = <<DataLine(T_gene, RenderAttr(ps))>>) =>
                /\ extracted_data.err = "none"
                /\ Len(extracted_data.rows) = 1
                /\ lacks(ps, T_gene_id) =>
                       extracted_data.rows[1].v.gene_id = NaN
                /\ lacks(ps, T_gene_biotype) =>
                       extracted_data.rows[1].v.gene_biotype = NaN

\* C7: a file without data rows (empty, or comment lines only) is processed
\* without error, and its output file is the header row alone.
C7_NoDataRowsGivesHeaderOnly ==
    (WasRead /\ DataLines(cur_text) = <<>>) =>
        /\ raw_data.err = "none"
        /\ transformed_data.err = "none" =>
               Len(CsvLines(transformed_data)) = 1

\* C8: the Schema Projector is a pure projection: as many records as Gene
\* Records, in their order, record i being (gene_id, feature, gene_biotype,
\* seqname, source) of Gene Record i in that column order, the other
\* columns dropped and no value changed.
C8_ProjectionIsPure ==
    LET E == extracted_data.rows
        T == transformed_data.rows
        five == {"gene_id", "feature", "gene_biotype", "seqname", "source"}
    IN  transformed_data.err = "none" =>
            /\ transformed_data.cols =
                   <<"gene_id", "feature", "gene_biotype", "seqname", "source">>
            /\ Len(T) = Len(E)
            /\ \A i \in 1..Len(T) :
                /\ T[i].idx = E[i].idx
                /\ DOMAIN T[i].v = five
                /\ \A c \in five : T[i].v[c] = E[i].v[c]

\* C8 witness: two Gene Records with different gene_id were projected
C8_Witness ==
    /\ transformed_data.err = "none"
    /\ Len(transformed_data.rows) = 2
    /\ transformed_data.rows[1].v.gene_id # transformed_data.rows[2].v.gene_id
    /\ Len(extracted_data.cols) = 11

\* C9: every file NAME.gtf that is processed successfully is written to
\* NAME.gene_info.tsv in the output directory passed to the call, and the
\* driver writes nowhere else.
C9_WritesToPassedDirectory ==
    /\ \A i \in 1..Len(printed) :
          printed[i].msg = "saved" => out[outArg].files[printed[i].arg].present
    /\ \A d \in OutDirs \ {outArg}, n \in Names :
          out[d].files[n].present => out[d].files[n].lines = StaleLines

\* C10: at every point of a run, also when the process is terminated between
\* two steps of writing, a file visible under its final name in an output
\* directory holds the complete Output Record set of its input.
C10_NoPartialOutputVisible ==
    \A d \in OutDirs :
        (cur_file \in Names /\ transformed_data.err = "none"
         /\ out[d].files[cur_file].present
         /\ out[d].files[cur_file].lines # StaleLines) =>
            out[d].files[cur_file].lines = CsvLines(transformed_data)

====
